---- MODULE Spec2Model ----
(***************************************************************************)
(* State-machine model of the 5G triage pipeline (triage_agent).           *)
(*                                                                         *)
(* One run of the workflow built by graph.create_workflow is modelled:     *)
(* the two branches that leave START (infra_agent; metrics_agent ->        *)
(* logs_agent -> traces_agent -> evidence_quality), the join in front of   *)
(* rca_agent, the conditional edge should_retry, increment_attempt and     *)
(* finalize.  The node functions mutate one TriageState document; the      *)
(* collectors are modelled at the granularity of their network calls       *)
(* (health probe, one step per backend query).                             *)
(*                                                                         *)
(* Scores and confidences are floats in the code; they are integers in     *)
(* hundredths here (0.70 is 70).  Python None is the empty sequence and a  *)
(* present value x is <<x>>.                                               *)
(***************************************************************************)
EXTENDS Integers, Sequences, FiniteSets, TLC

None == << >>
Some(x) == << x >>

\* Python truthiness of an optional dict (modelled as a set of entries) and
\* of an optional list: None and the empty container are both falsy.
TruthyDict(opt) == opt # None /\ opt[1] # {}
TruthyList(opt) == opt # None /\ opt[1] # << >>

(***************************************************************************)
(* Bounds of the model.                                                    *)
(***************************************************************************)
\* largest configured max_attempts that is explored
MaxAttemptsBound == 3
\* cap of the history counters (never binding in the unmodified model)
CounterCap == 6
\* most IMSIs that the discovery query can reveal
MaxImsis == 1

(***************************************************************************)
(* Configuration defaults (config.py).                                     *)
(***************************************************************************)
min_confidence_default == 70
min_confidence_relaxed == 65
high_evidence_threshold == 80
infra_root_cause_threshold == 80
infra_triggered_threshold == 60
degraded_conf_infra_generic == 50
degraded_conf_infra_specific == 60
degraded_conf_app_unknown == 40
degraded_conf_app_pattern_match == 50
evidence_gap_quality_threshold == 50
evidence_gap_confidence_threshold == 70
eq_score_all_sources == 95
eq_score_traces_plus_one == 85
eq_score_metrics_logs == 80
eq_score_traces_only == 50
eq_score_metrics_only == 40
eq_score_logs_only == 35
eq_score_no_evidence == 10
infra_weight_restarts == 35
infra_weight_oom == 25
infra_weight_pod_status == 20
infra_weight_resources == 20
restart_threshold_critical == 5
restart_threshold_high == 3
restart_factor_high == 70
restart_factor_low == 40
memory_saturation_pct == 90
cpu_saturation_cores == 100
cpu_saturation_factor == 80
pod_pending_factor == 60

Min(a, b) == IF a <= b THEN a ELSE b
Max(a, b) == IF a >= b THEN a ELSE b

RECURSIVE MaxOf(_, _)
\* max(values, default=d) over a sequence
MaxOf(s, d) == IF s = << >> THEN d
               ELSE LET m == MaxOf(Tail(s), d)
                    IN IF Tail(s) = << >> THEN Head(s) ELSE Max(Head(s), m)

(***************************************************************************)
(* Procedure definitions (the "dag" field) a caller can put in the state.  *)
(***************************************************************************)
DagEmpty == [all_nfs |-> << >>, phases |-> << >>]
DagOneNf == [all_nfs |-> << "AMF" >>,
             phases  |-> << [phase_id |-> "registration",
                             actors |-> {"AMF"},
                             failure_patterns |-> << >>] >>]
Dags == {DagEmpty, DagOneNf}

\* metrics_agent.build_nf_queries: error_rate, p95_latency, cpu, memory per NF
PromKinds == << "error_rate", "p95_latency", "cpu", "memory" >>
build_nf_queries(nfs) ==
    [i \in 1..(Len(nfs) * Len(PromKinds)) |->
        [nf   |-> nfs[((i - 1) \div Len(PromKinds)) + 1],
         kind |-> PromKinds[((i - 1) % Len(PromKinds)) + 1]]]

RECURSIVE PhaseQueries(_, _)
\* the inner loop of logs_agent.build_loki_queries for one NF
PhaseQueries(nf, phases) ==
    IF phases = << >> THEN << >>
    ELSE LET ph == Head(phases)
             mine == IF nf \in ph.actors
                     THEN << [nf |-> nf, kind |-> "success_log"] >>
                          \o [j \in 1..Len(ph.failure_patterns) |->
                                 [nf |-> nf, kind |-> "failure_pattern"]]
                     ELSE << >>
         IN mine \o PhaseQueries(nf, Tail(phases))

RECURSIVE LokiQueriesFor(_, _)
LokiQueriesFor(nfs, phases) ==
    IF nfs = << >> THEN << >>
    ELSE << [nf |-> Head(nfs), kind |-> "base"] >>
         \o PhaseQueries(Head(nfs), phases)
         \o LokiQueriesFor(Tail(nfs), phases)

build_loki_queries(dag) == LokiQueriesFor(dag.all_nfs, dag.phases)

(***************************************************************************)
(* Infrastructure score (infra_agent.compute_infrastructure_score) over a  *)
(* metrics dict: a record of sequences, a missing category being << >>.    *)
(***************************************************************************)
EmptyInfraMetrics ==
    [pod_restarts |-> << >>, oom_kills |-> << >>, pod_status |-> << >>,
     memory_percent |-> << >>, cpu_usage |-> << >>]

RECURSIVE status_factor(_, _)
status_factor(entries, acc) ==
    IF entries = << >> THEN acc
    ELSE LET phase == Head(entries).phase
             nxt == IF phase \in {"Failed", "Unknown"} THEN Max(acc, 100)
                    ELSE IF phase = "Pending" THEN Max(acc, pod_pending_factor)
                    ELSE acc
         IN status_factor(Tail(entries), nxt)

ValuesOf(entries) == [i \in 1..Len(entries) |-> entries[i].value]

\* the factors added up without their weights
compute_infrastructure_score_Unweighted(m) ==
    (IF MaxOf(ValuesOf(m.pod_restarts), 0) >= 1 THEN 100 ELSE 0)
    + (IF m.oom_kills # << >> THEN 100 ELSE 0)
    + status_factor(m.pod_status, 0)
    + (IF MaxOf(ValuesOf(m.memory_percent), 0) > memory_saturation_pct
       THEN 100 ELSE 0)

\* weights and factors are hundredths, so the weighted sum is in
\* ten-thousandths; the score is kept in whole hundredths (rounded down),
\* which leaves every comparison against a whole-hundredth threshold as it is
compute_infrastructure_score(m) ==
    LET max_restarts == MaxOf(ValuesOf(m.pod_restarts), 0)
        restart_factor == IF max_restarts > restart_threshold_critical THEN 100
                          ELSE IF max_restarts >= restart_threshold_high
                               THEN restart_factor_high
                          ELSE IF max_restarts >= 1 THEN restart_factor_low
                          ELSE 0
        oom_factor == IF m.oom_kills # << >> THEN 100 ELSE 0
        max_mem == MaxOf(ValuesOf(m.memory_percent), 0)
        max_cpu == MaxOf(ValuesOf(m.cpu_usage), 0)
        resource_factor == IF max_mem > memory_saturation_pct THEN 100
                           ELSE IF max_cpu > cpu_saturation_cores
                                THEN cpu_saturation_factor
                           ELSE 0
        score == (infra_weight_restarts * restart_factor
                  + infra_weight_oom * oom_factor
                  + infra_weight_pod_status * status_factor(m.pod_status, 0)
                  + infra_weight_resources * resource_factor) \div 100
    IN Min(score, 100)

\* infra_agent.extract_oom_events: {pod: oom_count} of the entries whose
\* value is above zero (a later entry of a pod replaces an earlier one)
extract_oom_events(m) ==
    LET hits == {i \in 1..Len(m.oom_kills) : m.oom_kills[i].value > 0}
        pods == {m.oom_kills[i].pod : i \in hits}
        last(p) == CHOOSE i \in hits :
                      /\ m.oom_kills[i].pod = p
                      /\ \A j \in hits : m.oom_kills[j].pod = p => j <= i
    IN [p \in pods |-> m.oom_kills[last(p)].value]

\* the findings dict infra_agent forwards; since the Prometheus call is not
\* wired up, the helpers always run over the empty metrics dict
\* (only the parts of the dict that a later step reads are kept: the words
\* that str(findings) contains)
infra_findings_of(m) ==
    [words |-> {"pod_restarts", "oom_kills", "resource_usage", "node_health",
                "concurrent_failures", "critical_events"}
               \cup (IF \E i \in 1..Len(m.oom_kills) : m.oom_kills[i].value > 0
                     THEN {"oom_kill"} ELSE {})
               \cup {m.pod_status[i].phase : i \in 1..Len(m.pod_status)}]

(***************************************************************************)
(* TriageState as built by graph.get_initial_state.                        *)
(***************************************************************************)
IncidentId == "inc-1"

get_initial_state(alert, incident_id, max_attempts) ==
    [alert |-> alert,
     incident_id |-> incident_id,
     infra_checked |-> FALSE,
     infra_score |-> 0,
     infra_findings |-> None,
     procedure_name |-> None,
     dag |-> None,
     metrics |-> None,
     logs |-> None,
     discovered_imsis |-> None,
     traces_ready |-> FALSE,
     trace_deviations |-> None,
     evidence_quality_score |-> 0,
     root_nf |-> None,
     failure_mode |-> None,
     layer |-> "",
     confidence |-> 0,
     evidence_chain |-> << >>,
     degraded_mode |-> FALSE,
     degraded_reason |-> None,
     attempt_count |-> 1,
     max_attempts |-> max_attempts,
     needs_more_evidence |-> FALSE,
     final_report |-> None,
     evidence_gaps |-> None]

Fields == DOMAIN get_initial_state([startsAt |-> "valid"], IncidentId, 1)

\* state[k] = v for every key of the update, as the item assignments of a
\* node function do
Assign(st, upd) ==
    [k \in DOMAIN st |-> IF k \in DOMAIN upd THEN upd[k] ELSE st[k]]

(***************************************************************************)
(* Backend behaviour seen by the collectors.                               *)
(***************************************************************************)
\* a query fails with a timeout, a non-2xx answer, a malformed payload or a
\* refused connection (the service that is asked is not there)
FailureKinds == {"timeout", "http_error", "malformed", "connect_error"}
QueryOutcomes == {"ok"} \cup FailureKinds
\* /ready answers 200, answers something else, or the probe itself errors
ProbeOutcomes == {"ready", "not_ready", "error"}

Imsis == [i \in 1..MaxImsis |-> i]

\* the entry a successful Prometheus query contributes
MetricEntry(q) == [nf |-> q.nf, q |-> q]
\* the log line a successful Loki query contributes; imsi is the IMSI its
\* message mentions, if any, and message the lowercase keywords it contains
LogLine(q, imsi) == [pod |-> "amf-0", q |-> q, imsi |-> imsi, message |-> {"error"}]

DiscoveryQuery == [nf |-> "5g-core", kind |-> "discovery"]
\* ue_traces_agent.per_imsi_logql
per_imsi_logql(imsi) == [nf |-> "5g-core", kind |-> "imsi", imsi |-> imsi]

Range(s) == {s[i] : i \in 1..Len(s)}

\* metrics_agent.organize_metrics_by_nf: entries whose NF is not one of the
\* DAG's NFs are dropped, the others are grouped under their NF
organize_metrics_by_nf(entries, nfs) ==
    {e \in Range(entries) : e.nf \in Range(nfs)}

\* logs_agent.organize_and_annotate_logs: every line is kept, grouped by the
\* NF prefix of its pod name
organize_and_annotate_logs(lines) ==
    [i \in 1..Len(lines) |->
        [nf |-> "amf", q |-> lines[i].q, message |-> lines[i].message]]

RECURSIVE extract_unique_imsis(_, _)
\* ue_traces_agent.extract_unique_imsis: deduplicated, discovery order
extract_unique_imsis(lines, seen) ==
    IF lines = << >> THEN << >>
    ELSE LET l == Head(lines)
         IN IF l.imsi # None /\ l.imsi[1] \notin seen
            THEN << l.imsi[1] >>
                 \o extract_unique_imsis(Tail(lines), seen \cup {l.imsi[1]})
            ELSE extract_unique_imsis(Tail(lines), seen)

\* a contraction that numbers the events and takes the message as action
contract_imsi_trace_Numbered(raw_trace, imsi) ==
    [imsi |-> imsi,
     events |-> [i \in 1..Len(raw_trace) |->
                    [order |-> Some(i), action |-> Some(<< "error" >>),
                     nf |-> "amf", q |-> raw_trace[i].q]]]

\* ue_traces_agent.contract_imsi_trace: the events keep timestamp, nf and
\* message only; order and action are not set
contract_imsi_trace(raw_trace, imsi) ==
    [imsi |-> imsi,
     events |-> [i \in 1..Len(raw_trace) |->
                    [order |-> None, action |-> None, nf |-> "amf",
                     q |-> raw_trace[i].q]]]

(***************************************************************************)
(* The state of the run.                                                   *)
(***************************************************************************)
VARIABLES
    state,     \* the TriageState document
    pcInfra,   \* position of the infra branch
    pcData,    \* position of the data-collection branch
    pcMain,    \* position after the join
    error,     \* the node whose exception ended the run, if any
    fetch,     \* the evidence-fetch invocation in progress (collector locals)
    tr,        \* locals of the traces agent
    store,     \* CapturedTrace records in the graph store
    wrote,     \* per branch, the fields its nodes have assigned
    hist,      \* counters of executed steps and flags of what was observed
    api        \* the library call made outside a run (store operation, parse)

vars == << state, pcInfra, pcData, pcMain, error, fetch, tr, store, wrote, hist,
          api >>

\* owner: the collector (or loki_query call) the invocation belongs to;
\* probed: the answer of the health probe; use_mcp: the path selected;
\* probes: health probes issued; pending: queries not yet issued;
\* calls: backend calls issued, with path and outcome; results: the records
\* collected so far (the list that is returned once stage is "done")
IdleFetch == [owner |-> "none", stage |-> "idle", probed |-> "none",
              use_mcp |-> FALSE, probes |-> 0, pending |-> << >>,
              calls |-> << >>, results |-> << >>]

IdleTr == [imsis |-> << >>, traces |-> << >>, next |-> 1]

\* a fetch over the given queries that starts with the health probe
ProbedFetch(owner, queries) ==
    [IdleFetch EXCEPT !.owner = owner, !.stage = "probe",
                      !.pending = queries]

\* the alert of a run: its startsAt is an ISO timestamp, a string that is
\* not one, or the key is absent from the dict
Alerts == {[startsAt |-> "valid"], [startsAt |-> "malformed"],
           [startsAt |-> "missing"]}

\* no library call is being made outside the run
ApiIdle == [op |-> "none"]

\* rcaRuns, routes, incs, finals: executions of rca_agent, of the conditional
\* edge, of increment_attempt and of finalize; queryOk: some backend query
\* succeeded; llmOther: some reasoning call did not time out; llmTimeout:
\* some reasoning call timed out; lastLlm: the outcome of the latest
\* reasoning call; storeRaised: a store operation of the run raised
InitHist == [rcaRuns |-> 0, routes |-> 0, incs |-> 0, finals |-> 0,
             queryOk |-> FALSE, llmOther |-> FALSE, llmTimeout |-> FALSE,
             lastLlm |-> "none", storeRaised |-> FALSE]

\* get_initial_state, after which the caller may attach a procedure
\* definition (the integration tests set state["dag"] before running nodes)
Init ==
    /\ \E a \in Alerts, n \in 1..MaxAttemptsBound, d \in {None} \cup {Some(g) : g \in Dags} :
          state = [get_initial_state(a, IncidentId, n) EXCEPT
                      !.dag = d,
                      !.procedure_name = IF d = None THEN None
                                         ELSE Some("Registration_General")]
    /\ pcInfra = "infra_agent"
    /\ pcData = "metrics_agent"
    /\ pcMain = "join"
    /\ error = None
    /\ fetch = IdleFetch
    /\ tr = IdleTr
    /\ store = << >>
    /\ wrote = [infra |-> {}, data |-> {}]
    /\ hist = InitHist
    /\ api = ApiIdle

\* a parse that accepts any alert
TimestampParses_Lenient(st) == st.alert.startsAt \in {"valid", "malformed", "missing"}

\* parse_timestamp(alert["startsAt"]) raises on a malformed timestamp
\* (ValueError of datetime.fromisoformat) and on an absent key (KeyError)
TimestampParses(st) == st.alert.startsAt = "valid"

\* an exception that is recorded while the run goes on
Raise_Continues(node) ==
    /\ pcMain' = pcMain
    /\ error' = Some(node)

\* an exception leaves the node: the run is over (webhook._run_triage logs it)
Raise(node) ==
    /\ pcMain' = "failed"
    /\ error' = Some(node)

Collecting == pcMain = "join"

(***************************************************************************)
(* infra_agent                                                             *)
(***************************************************************************)
InfraUpdate_WritesMetrics ==
    [infra_checked |-> TRUE,
     infra_score |-> compute_infrastructure_score(EmptyInfraMetrics),
     infra_findings |-> Some(infra_findings_of(EmptyInfraMetrics)),
     metrics |-> Some({})]

InfraUpdate ==
    [infra_checked |-> TRUE,
     infra_score |-> compute_infrastructure_score(EmptyInfraMetrics),
     infra_findings |-> Some(infra_findings_of(EmptyInfraMetrics))]

infra_agent ==
    /\ Collecting /\ pcInfra = "infra_agent"
    /\ IF ~TimestampParses(state)
       THEN /\ Raise("infra_agent")
            /\ UNCHANGED << state, pcInfra, wrote >>
       ELSE /\ state' = Assign(state, InfraUpdate)
            /\ wrote' = [wrote EXCEPT !.infra = @ \cup DOMAIN InfraUpdate]
            /\ pcInfra' = "done"
            /\ UNCHANGED << pcMain, error >>
    /\ UNCHANGED << api, pcData, fetch, tr, store, hist >>

(***************************************************************************)
(* metrics_agent: assert, parse, build queries, one MCP call per query.    *)
(***************************************************************************)
MetricsBegin ==
    /\ Collecting /\ pcData = "metrics_agent" /\ fetch.owner = "none"
    /\ IF state.dag = None \/ ~TimestampParses(state)
       THEN /\ Raise("metrics_agent")
            /\ UNCHANGED fetch
       ELSE /\ LET queries == build_nf_queries(state.dag[1].all_nfs)
               IN fetch' = [IdleFetch EXCEPT
                              !.owner = "metrics_agent",
                              !.stage = IF queries = << >> THEN "done" ELSE "query",
                              !.use_mcp = TRUE,
                              !.pending = queries]
            /\ UNCHANGED << pcMain, error >>
    /\ UNCHANGED << api, state, pcInfra, pcData, tr, store, wrote, hist >>

\* the state of the fetch after one query of the batch was answered
\* _fetch_prometheus_metrics: MCPTimeoutError and MCPQueryError are caught per
\* query; any other exception leaves the function and metrics_agent continues
\* with raw_results = []
AfterPrometheusQuery(f, out) ==
    LET q == Head(f.pending)
        logged == [f EXCEPT !.calls = Append(@, [path |-> "mcp", q |-> q, outcome |-> out])]
        rest == Tail(f.pending)
    IN IF out = "ok"
       THEN [logged EXCEPT !.results = Append(@, MetricEntry(q)),
                           !.pending = rest,
                           !.stage = IF rest = << >> THEN "done" ELSE "query"]
       ELSE IF out \in {"timeout", "http_error"}
       THEN [logged EXCEPT !.pending = rest,
                           !.stage = IF rest = << >> THEN "done" ELSE "query"]
       ELSE [logged EXCEPT !.results = << >>, !.pending = << >>, !.stage = "done"]

PrometheusQuery ==
    /\ Collecting /\ fetch.owner = "metrics_agent" /\ fetch.stage = "query"
    /\ \E out \in QueryOutcomes :
          /\ fetch' = AfterPrometheusQuery(fetch, out)
          /\ hist' = [hist EXCEPT !.queryOk = @ \/ out = "ok"]
    /\ UNCHANGED << api, state, pcInfra, pcData, pcMain, error, tr, store, wrote >>

MetricsUpdate(f, st) ==
    [metrics |-> Some(organize_metrics_by_nf(f.results, st.dag[1].all_nfs))]

MetricsReturn ==
    /\ Collecting /\ fetch.owner = "metrics_agent" /\ fetch.stage = "done"
    /\ state' = Assign(state, MetricsUpdate(fetch, state))
    /\ wrote' = [wrote EXCEPT !.data = @ \cup DOMAIN MetricsUpdate(fetch, state)]
    /\ pcData' = "logs_agent"
    /\ fetch' = IdleFetch
    /\ UNCHANGED << api, pcInfra, pcMain, error, tr, store, hist >>

(***************************************************************************)
(* The two-path Loki fetch shared by logs_agent and ue_traces_agent:       *)
(* health probe, then every query on the chosen path.                      *)
(***************************************************************************)
LogOwners == {"logs_agent", "traces_discovery", "traces_imsi"}

ProbeSaysMcp_Always(p) == TRUE

\* _check_mcp_available: True only if /ready answered 200; any error is False
ProbeSaysMcp(p) == p = "ready"

StageAfterQuery_Reprobes(rest) == IF rest = << >> THEN "done" ELSE "probe"

\* where the invocation stands after the answer to a query that did not end
\* the batch
StageAfterQuery(rest) == IF rest = << >> THEN "done" ELSE "query"

OnMcpFailure_FallsBack(f) ==
    [f EXCEPT !.results = << >>, !.use_mcp = FALSE, !.stage = "query"]

OnMcpFailure_Raises(f) == [f EXCEPT !.stage = "raised"]

\* the MCP path raised (query_loki propagates every failure): the caller's
\* except clause logs it and continues with no records, on the same path
OnMcpFailure(f) ==
    [f EXCEPT !.results = << >>, !.pending = << >>, !.stage = "done"]

\* _fetch_loki_logs (MCP, no per-query try) and _fetch_loki_logs_direct
\* (every exception caught per query)
AfterLokiQuery(f, out, line) ==
    LET q == Head(f.pending)
        path == IF f.use_mcp THEN "mcp" ELSE "direct"
        logged == [f EXCEPT !.calls = Append(@, [path |-> path, q |-> q, outcome |-> out])]
        rest == Tail(f.pending)
    IN IF out = "ok"
       THEN [logged EXCEPT !.results = Append(@, line),
                           !.pending = rest,
                           !.stage = StageAfterQuery(rest)]
       ELSE IF f.use_mcp
       THEN OnMcpFailure(logged)
       ELSE [logged EXCEPT !.pending = rest, !.stage = StageAfterQuery(rest)]

\* what a successful query can return: a discovery line may mention an IMSI
LinesFor(q) ==
    IF q.kind = "discovery"
    THEN {LogLine(q, None)} \cup {LogLine(q, Some(Imsis[i])) : i \in 1..MaxImsis}
    ELSE {LogLine(q, None)}

Probe ==
    /\ Collecting /\ fetch.owner \in LogOwners /\ fetch.stage = "probe"
    /\ \E p \in ProbeOutcomes :
          fetch' = [fetch EXCEPT !.probed = p,
                                 !.use_mcp = ProbeSaysMcp(p),
                                 !.probes = @ + 1,
                                 !.stage = "query"]
    /\ UNCHANGED << api, state, pcInfra, pcData, pcMain, error, tr, store, wrote, hist >>

LokiQuery ==
    /\ Collecting /\ fetch.owner \in LogOwners /\ fetch.stage = "query"
    /\ \E out \in QueryOutcomes :
          /\ \E line \in LinesFor(Head(fetch.pending)) :
                fetch' = AfterLokiQuery(fetch, out, line)
          /\ hist' = [hist EXCEPT !.queryOk = @ \/ out = "ok"]
    /\ UNCHANGED << api, state, pcInfra, pcData, pcMain, error, tr, store, wrote >>

(***************************************************************************)
(* logs_agent                                                              *)
(***************************************************************************)
LogsBegin ==
    /\ Collecting /\ pcData = "logs_agent" /\ fetch.owner = "none"
    /\ IF state.dag = None \/ ~TimestampParses(state)
       THEN /\ Raise("logs_agent")
            /\ UNCHANGED fetch
       ELSE /\ LET queries == build_loki_queries(state.dag[1])
               IN fetch' = IF queries = << >>
                           THEN [IdleFetch EXCEPT !.owner = "logs_agent",
                                                  !.stage = "done"]
                           ELSE ProbedFetch("logs_agent", queries)
            /\ UNCHANGED << pcMain, error >>
    /\ UNCHANGED << api, state, pcInfra, pcData, tr, store, wrote, hist >>

LogsUpdate(f) == [logs |-> Some(organize_and_annotate_logs(f.results))]

LogsReturn ==
    /\ Collecting /\ fetch.owner = "logs_agent" /\ fetch.stage = "done"
    /\ state' = Assign(state, LogsUpdate(fetch))
    /\ wrote' = [wrote EXCEPT !.data = @ \cup DOMAIN LogsUpdate(fetch)]
    /\ pcData' = "traces_agent"
    /\ fetch' = IdleFetch
    /\ UNCHANGED << api, pcInfra, pcMain, error, tr, store, hist >>

(***************************************************************************)
(* Graph store: captured traces and deviation detection.                   *)
(***************************************************************************)
memgraph_max_retries == 3

\* what one attempt of a Cypher call meets: success, a ServiceUnavailable or
\* TransientError ("transient"), or any other exception
AttemptOutcomes == {"ok", "transient", "other"}

\* what the attempts of one call would meet, attempt by attempt
CypherEnvs == [1..memgraph_max_retries -> AttemptOutcomes]

\* the environments a run of the pipeline is explored in: the call succeeds
\* at once, succeeds at its second attempt, meets a transient error at
\* every attempt, or meets another error at once
RunEnvs ==
    {env \in CypherEnvs :
        \/ \A i \in 1..memgraph_max_retries : env[i] = "ok"
        \/ \A i \in 1..memgraph_max_retries : env[i] = "transient"
        \/ /\ env[1] \in {"transient", "other"}
           /\ \A i \in 2..memgraph_max_retries : env[i] = "ok"}

RECURSIVE CypherAttempt(_, _, _, _)
\* the loop of execute_cypher from the given (0-based) attempt on
CypherAttempt(env, attempt, retries, sleeps) ==
    IF attempt >= retries
    THEN [status |-> "raised", attempts |-> attempt, sleeps |-> sleeps,
          error |-> attempt]
    ELSE IF env[attempt + 1] = "ok"
    THEN [status |-> "ok", attempts |-> attempt + 1, sleeps |-> sleeps,
          error |-> 0]
    ELSE IF env[attempt + 1] = "other"
    THEN [status |-> "raised", attempts |-> attempt + 1, sleeps |-> sleeps,
          error |-> attempt + 1]
    ELSE CypherAttempt(env, attempt + 1, retries,
                       IF attempt < retries - 1
                       THEN Append(sleeps, 2 ^ attempt) ELSE sleeps)

\* a query that gives up at the first transient error
execute_cypher_NoRetry(env, retries) == CypherAttempt(env, 0, 1, << >>)

\* MemgraphConnection.execute_cypher: up to `retries` attempts, sleeping
\* 2**attempt after a transient error that is not the last attempt's;
\* error is the attempt whose exception the call raises (last_error), 0
\* when the call returns
execute_cypher(env, retries) == CypherAttempt(env, 0, retries, << >>)

\* MemgraphConnection.execute_cypher_write: session.run once, no except clause
execute_cypher_write(env) ==
    [status |-> IF env[1] = "ok" THEN "ok" ELSE "raised",
     attempts |-> 1, sleeps |-> << >>,
     error |-> IF env[1] = "ok" THEN 0 ELSE 1]

\* the reference procedure loaded in the store, by name
RefSteps(name) ==
    IF name = Some("Registration_General")
    THEN << [order |-> 1, action |-> << "Registration", "Request" >>, nf |-> "AMF"],
            [order |-> 2, action |-> << "Authentication" >>, nf |-> "AUSF"] >>
    ELSE << >>

\* Cypher: text CONTAINS sub (contiguous occurrence)
Contains(text, sub) ==
    \E i \in 1..(Len(text) - Len(sub) + 1) :
        SubSeq(text, i, i + Len(sub) - 1) = sub

\* the rows of the MATCH ... WHERE of detect_deviation, as pairs (index of
\* the reference step, index of the captured trace); a null order or action
\* makes the predicate null, so the row is dropped
DeviationRows(st, ref, incident_id, imsi) ==
    {r \in (1..Len(ref)) \X (1..Len(st)) :
        /\ st[r[2]].incident_id = incident_id
        /\ st[r[2]].imsi = imsi
        /\ \E k \in 1..Len(st[r[2]].events) :
             LET e == st[r[2]].events[k]
             IN /\ e.order # None /\ e.action # None
                /\ e.order[1] = ref[r[1]].order
                /\ ~Contains(e.action[1], ref[r[1]].action)}

detect_deviation_LargestOrder(st, incident_id, imsi, dag_name) ==
    LET ref == RefSteps(dag_name)
        rows == DeviationRows(st, ref, incident_id, imsi)
    IN IF rows = {} THEN None
       ELSE LET first == CHOOSE r \in rows : \A o \in rows : ref[r[1]].order >= ref[o[1]].order
            IN Some([deviation_point |-> ref[first[1]].order,
                     expected |-> ref[first[1]].action])

\* memgraph.connection.detect_deviation: ORDER BY refStep.order LIMIT 1 over
\* the rows, None when there is no row
detect_deviation(st, incident_id, imsi, dag_name) ==
    LET ref == RefSteps(dag_name)
        rows == DeviationRows(st, ref, incident_id, imsi)
    IN IF rows = {} THEN None
       ELSE LET first == CHOOSE r \in rows : \A o \in rows : ref[r[1]].order <= ref[o[1]].order
            IN Some([deviation_point |-> ref[first[1]].order,
                     expected |-> ref[first[1]].action])

\* the properties a TraceEvent node gets from an event of the list
TraceEventOf(e) == [order |-> e.order, action |-> e.action, nf |-> e.nf]

ingest_captured_trace_Merges(st, incident_id, imsi, events) ==
    LET rec == [incident_id |-> incident_id, imsi |-> imsi,
                events |-> [i \in 1..Len(events) |-> TraceEventOf(events[i])]]
    IN IF \E k \in 1..Len(st) : st[k].incident_id = incident_id /\ st[k].imsi = imsi
       THEN [k \in 1..Len(st) |->
               IF st[k].incident_id = incident_id /\ st[k].imsi = imsi
               THEN rec ELSE st[k]]
       ELSE Append(st, rec)

\* memgraph.connection.ingest_captured_trace: CREATE a CapturedTrace node and
\* one TraceEvent node per event of the list
ingest_captured_trace(st, incident_id, imsi, events) ==
    Append(st, [incident_id |-> incident_id, imsi |-> imsi,
                events |-> [i \in 1..Len(events) |-> TraceEventOf(events[i])]])

\* memgraph.connection.cleanup_incident_traces: the traces of the incident
\* that the pattern (t)-[:EVENT]->(e) matches are deleted with their events
cleanup_incident_traces(st, incident_id) ==
    SelectSeq(st, LAMBDA r : ~(r.incident_id = incident_id /\ r.events # << >>))

RECURSIVE DeviationsOf(_, _, _, _, _, _)
\* the loop of run_deviation_detection: one detect_deviation call (envs[j]
\* is what the j-th read of the step meets) per CapturedTrace record of the
\* incident, non-null results kept; a call that raises ends the loop
DeviationsOf(st, k, incident_id, dag_name, envs, j) ==
    IF k > Len(st) THEN [status |-> "ok", deviations |-> << >>]
    ELSE IF st[k].incident_id # incident_id
    THEN DeviationsOf(st, k + 1, incident_id, dag_name, envs, j)
    ELSE IF execute_cypher(envs[j], memgraph_max_retries).status # "ok"
    THEN [status |-> "raised", deviations |-> << >>]
    ELSE LET d == detect_deviation(st, incident_id, st[k].imsi, dag_name)
             rest == DeviationsOf(st, k + 1, incident_id, dag_name, envs, j + 1)
         IN [status |-> rest.status,
             deviations |-> IF rest.status = "ok" THEN d \o rest.deviations
                            ELSE << >>]

\* ue_traces_agent.run_deviation_detection: the query for the incident's
\* captured IMSIs, then the loop
run_deviation_detection(st, incident_id, dag_name, envs) ==
    IF execute_cypher(envs[1], memgraph_max_retries).status # "ok"
    THEN [status |-> "raised", deviations |-> << >>]
    ELSE DeviationsOf(st, 1, incident_id, dag_name, envs, 2)

RECURSIVE ingest_traces_to_memgraph(_, _, _, _)
\* ue_traces_agent.ingest_traces_to_memgraph: ingest_captured_trace for
\* every trace in turn (envs[i] is what the i-th write meets); a write that
\* raises ends the loop, the traces written before it stay
ingest_traces_to_memgraph(st, traces, incident_id, envs) ==
    IF traces = << >> THEN [status |-> "ok", store |-> st]
    ELSE IF execute_cypher_write(Head(envs)).status # "ok"
    THEN [status |-> "raised", store |-> st]
    ELSE ingest_traces_to_memgraph(
             ingest_captured_trace(st, incident_id, Head(traces).imsi,
                                   Head(traces).events),
             Tail(traces), incident_id, Tail(envs))

(***************************************************************************)
(* ue_traces_agent.discover_and_trace_imsis                                *)
(***************************************************************************)
TracesBegin ==
    /\ Collecting /\ pcData = "traces_agent" /\ fetch.owner = "none"
    /\ IF ~TimestampParses(state)
       THEN /\ Raise("traces_agent")
            /\ UNCHANGED fetch
       ELSE /\ fetch' = ProbedFetch("traces_discovery", << DiscoveryQuery >>)
            /\ UNCHANGED << pcMain, error >>
    /\ tr' = IdleTr
    /\ UNCHANGED << api, state, pcInfra, pcData, store, wrote, hist >>

\* the discovery query returned: extract the IMSIs and start the first
\* per-IMSI query (a new loki_query call), or go on to the store
TracesDiscovered ==
    /\ Collecting /\ fetch.owner = "traces_discovery" /\ fetch.stage = "done"
    /\ LET imsis == extract_unique_imsis(fetch.results, {})
       IN /\ tr' = [imsis |-> imsis, traces |-> << >>, next |-> 1]
          /\ fetch' = IF imsis = << >>
                      THEN [IdleFetch EXCEPT !.owner = "traces_store"]
                      ELSE ProbedFetch("traces_imsi", << per_imsi_logql(imsis[1]) >>)
    /\ UNCHANGED << api, state, pcInfra, pcData, pcMain, error, store, wrote, hist >>

\* one per-IMSI query returned: contract it and go on with the next IMSI
TracesImsiTraced ==
    /\ Collecting /\ fetch.owner = "traces_imsi" /\ fetch.stage = "done"
    /\ LET contracted == contract_imsi_trace(fetch.results, tr.imsis[tr.next])
           nxt == tr.next + 1
       IN /\ tr' = [tr EXCEPT !.traces = Append(@, contracted), !.next = nxt]
          /\ fetch' = IF nxt > Len(tr.imsis)
                      THEN [IdleFetch EXCEPT !.owner = "traces_store"]
                      ELSE ProbedFetch("traces_imsi", << per_imsi_logql(tr.imsis[nxt]) >>)
    /\ UNCHANGED << api, state, pcInfra, pcData, pcMain, error, store, wrote, hist >>

\* traces marked as collected only when an IMSI was discovered
TracesUpdate_ReadyIfFound(imsis, deviations) ==
    [discovered_imsis |-> Some(imsis),
     traces_ready |-> imsis # << >>,
     trace_deviations |-> Some(deviations)]

TracesUpdate(imsis, deviations) ==
    [discovered_imsis |-> Some(imsis),
     traces_ready |-> TRUE,
     trace_deviations |-> Some(deviations)]

StoreFailurePropagates_Swallowed(status) == FALSE

\* discover_and_trace_imsis calls the store outside any try block: a store
\* operation that raised ends the node with that exception
StoreFailurePropagates(status) == status # "ok"

\* ingestion, deviation detection and the three result fields
TracesStoreAndReturn ==
    /\ Collecting /\ fetch.owner = "traces_store"
    /\ \E wenvs \in [1..Len(tr.traces) -> RunEnvs],
          renvs \in [1..(1 + Len(store) + Len(tr.traces)) -> RunEnvs] :
         LET ingested == ingest_traces_to_memgraph(store, tr.traces,
                                                   state.incident_id, wenvs)
             detected == run_deviation_detection(ingested.store, state.incident_id,
                                                 state.procedure_name, renvs)
             status == IF ingested.status # "ok" THEN ingested.status
                       ELSE detected.status
             upd == TracesUpdate(tr.imsis, detected.deviations)
         IN /\ store' = ingested.store
            /\ hist' = [hist EXCEPT !.storeRaised = @ \/ status # "ok"]
            /\ IF StoreFailurePropagates(status)
               THEN /\ Raise("traces_agent")
                    /\ UNCHANGED << state, pcData, wrote >>
               ELSE /\ state' = Assign(state, upd)
                    /\ wrote' = [wrote EXCEPT !.data = @ \cup DOMAIN upd]
                    /\ pcData' = "evidence_quality"
                    /\ UNCHANGED << pcMain, error >>
    /\ fetch' = IdleFetch
    /\ tr' = IdleTr
    /\ UNCHANGED << api, pcInfra >>

(***************************************************************************)
(* evidence_quality.compute_evidence_quality                               *)
(***************************************************************************)
\* a score that depends on the number of sources only
quality_score_CountsOnly(hasMetrics, hasLogs, hasTraces) ==
    LET n == (IF hasMetrics THEN 1 ELSE 0) + (IF hasLogs THEN 1 ELSE 0)
             + (IF hasTraces THEN 1 ELSE 0)
    IN IF n = 3 THEN eq_score_all_sources
       ELSE IF n = 2 THEN eq_score_traces_plus_one
       ELSE IF n = 1 THEN eq_score_traces_only
       ELSE eq_score_no_evidence

quality_score(hasMetrics, hasLogs, hasTraces) ==
    LET n == (IF hasMetrics THEN 1 ELSE 0) + (IF hasLogs THEN 1 ELSE 0)
             + (IF hasTraces THEN 1 ELSE 0)
        q == IF n = 3 THEN eq_score_all_sources
             ELSE IF n = 2 /\ hasTraces THEN eq_score_traces_plus_one
             ELSE IF n = 2 THEN eq_score_metrics_logs
             ELSE IF hasTraces THEN eq_score_traces_only
             ELSE IF hasMetrics THEN eq_score_metrics_only
             ELSE IF hasLogs THEN eq_score_logs_only
             ELSE eq_score_no_evidence
    IN Min(q, 100)

\* presence decided by "is not None" instead of truthiness
EvidenceQualityUpdate_CountsEmpty(st) ==
    [evidence_quality_score |->
        quality_score(st.metrics # None, st.logs # None, st.traces_ready)]

EvidenceQualityUpdate(st) ==
    [evidence_quality_score |->
        quality_score(TruthyDict(st.metrics), TruthyList(st.logs), st.traces_ready)]

compute_evidence_quality ==
    /\ Collecting /\ pcData = "evidence_quality"
    /\ state' = Assign(state, EvidenceQualityUpdate(state))
    /\ wrote' = [wrote EXCEPT !.data = @ \cup DOMAIN EvidenceQualityUpdate(state)]
    /\ pcData' = "done"
    /\ UNCHANGED << api, pcInfra, pcMain, error, fetch, tr, store, hist >>

(***************************************************************************)
(* rca_agent.rca_agent_first_attempt                                       *)
(***************************************************************************)
\* confidences the reasoning call returns in the explored runs
LLMConfidences == {50, 65, 70}
\* llm_analyze_evidence returns an analysis, raises TimeoutError, or raises
\* something else (ValueError on an unparseable answer)
LLMOutcomes == {[kind |-> "ok", confidence |-> c] : c \in LLMConfidences}
               \cup {[kind |-> "timeout", confidence |-> 0],
                     [kind |-> "error", confidence |-> 0]}

LLMAnalysis(c) ==
    [layer |-> "application", root_nf |-> "AMF",
     failure_mode |-> "registration_failure", confidence |-> c,
     evidence_chain |-> << >>]

RECURSIVE ScanLogs(_)
\* the keyword scan of degraded_mode_analysis: the first entry whose message
\* has "timeout", or "auth" and "fail", decides
ScanLogs(entries) ==
    IF entries = << >>
    THEN [root_nf |-> "unknown", failure_mode |-> "undetermined",
          confidence |-> degraded_conf_app_unknown]
    ELSE LET e == Head(entries)
         IN IF "timeout" \in e.message
            THEN [root_nf |-> e.nf, failure_mode |-> "timeout",
                  confidence |-> degraded_conf_app_pattern_match]
            ELSE IF "auth" \in e.message /\ "fail" \in e.message
            THEN [root_nf |-> e.nf, failure_mode |-> "authentication_failure",
                  confidence |-> degraded_conf_app_pattern_match]
            ELSE ScanLogs(Tail(entries))

\* the rule-based analysis with the lower of the two layer thresholds
degraded_mode_analysis_TriggeredThreshold(st) ==
    IF st.infra_score >= infra_triggered_threshold
    THEN [layer |-> "infrastructure", root_nf |-> "pod-level",
          failure_mode |-> "infrastructure_issue",
          confidence |-> degraded_conf_infra_generic,
          evidence_chain |-> << >>]
    ELSE [layer |-> "application", root_nf |-> "unknown",
          failure_mode |-> "undetermined",
          confidence |-> degraded_conf_app_unknown,
          evidence_chain |-> << >>]

degraded_mode_analysis(st) ==
    IF st.infra_score >= infra_root_cause_threshold
    THEN LET words == IF st.infra_findings = None THEN {}
                      ELSE st.infra_findings[1].words
         IN [layer |-> "infrastructure", root_nf |-> "pod-level",
             failure_mode |-> IF "OOMKilled" \in words THEN "OOMKilled"
                              ELSE IF "CrashLoopBackOff" \in words
                                   THEN "CrashLoopBackOff"
                              ELSE "infrastructure_issue",
             confidence |-> IF "OOMKilled" \in words \/ "CrashLoopBackOff" \in words
                            THEN degraded_conf_infra_specific
                            ELSE degraded_conf_infra_generic,
             evidence_chain |-> << >>]
    ELSE LET hit == ScanLogs(IF st.logs = None THEN << >> ELSE st.logs[1])
         IN [layer |-> "application", root_nf |-> hit.root_nf,
             failure_mode |-> hit.failure_mode, confidence |-> hit.confidence,
             evidence_chain |-> << >>]

identify_evidence_gaps(st) ==
    LET gaps == (IF ~TruthyDict(st.metrics) THEN << "NF metrics data needed" >> ELSE << >>)
             \o (IF ~TruthyList(st.logs) THEN << "NF logs data needed" >> ELSE << >>)
             \o (IF ~TruthyList(st.trace_deviations)
                 THEN << "UE trace analysis needed" >> ELSE << >>)
             \o (IF st.evidence_quality_score < evidence_gap_quality_threshold
                 THEN << "Overall evidence quality too low" >> ELSE << >>)
             \o (IF st.infra_score > infra_triggered_threshold /\ st.infra_findings = None
                 THEN << "Detailed infrastructure findings needed" >> ELSE << >>)
    IN IF gaps = << >> /\ st.confidence < evidence_gap_confidence_threshold
       THEN << "Additional temporal analysis needed",
               "Cross-correlation of events needed" >>
       ELSE gaps

generate_final_report(st) ==
    [incident_id |-> st.incident_id,
     procedure_name |-> st.procedure_name,
     layer |-> st.layer,
     root_nf |-> st.root_nf,
     failure_mode |-> st.failure_mode,
     confidence |-> st.confidence,
     evidence_chain |-> st.evidence_chain,
     infra_score |-> st.infra_score,
     evidence_quality_score |-> st.evidence_quality_score,
     degraded_mode |-> st.degraded_mode]

\* a gate that never relaxes its threshold
MinConfidence_NeverRelaxed(st) == min_confidence_default

\* a gate that lets the lowest degraded confidence through
MinConfidence_Lowest(st) == degraded_conf_app_unknown

\* the threshold of the confidence gate
MinConfidence(st) ==
    IF st.evidence_quality_score >= high_evidence_threshold
    THEN min_confidence_relaxed
    ELSE min_confidence_default

DegradedFlags_Sticky(st, timedOut) ==
    [degraded_mode |-> st.degraded_mode \/ timedOut,
     degraded_reason |-> IF timedOut THEN Some("LLM timeout")
                         ELSE st.degraded_reason]

\* the try/except around llm_analyze_evidence: False and None after a call
\* that returned, True and a reason string after a TimeoutError
DegradedFlags(st, timedOut) ==
    [degraded_mode |-> timedOut,
     degraded_reason |-> IF timedOut THEN Some("LLM timeout") ELSE None]

\* a decision step that throws the collected evidence away
RcaResult_DropsEvidence(st, llm) ==
    Assign(st, [confidence |-> llm.confidence, needs_more_evidence |-> TRUE,
                logs |-> None, evidence_quality_score |-> 0])

\* the state a decision step leaves when the reasoning call did not raise
\* anything but a timeout
RcaResult(st, llm) ==
    LET timedOut == llm.kind = "timeout"
        s1 == Assign(st, DegradedFlags(st, timedOut))
        analysis == IF timedOut THEN degraded_mode_analysis(s1)
                    ELSE LLMAnalysis(llm.confidence)
        s2 == Assign(s1, [root_nf |-> Some(analysis.root_nf),
                          failure_mode |-> Some(analysis.failure_mode),
                          confidence |-> analysis.confidence,
                          evidence_chain |-> analysis.evidence_chain,
                          layer |-> analysis.layer])
    IN IF s2.confidence >= MinConfidence(s2)
       THEN LET s3 == Assign(s2, [needs_more_evidence |-> FALSE])
            IN Assign(s3, [final_report |-> Some(generate_final_report(s3))])
       ELSE LET s3 == Assign(s2, [needs_more_evidence |-> TRUE])
            IN Assign(s3, [evidence_gaps |-> Some(identify_evidence_gaps(s3))])

rca_agent_first_attempt ==
    /\ pcMain = "rca_agent"
    /\ hist.rcaRuns < CounterCap
    /\ \E llm \in LLMOutcomes :
          IF llm.kind = "error"
          THEN /\ Raise("rca_agent")
               /\ UNCHANGED state
               /\ hist' = [hist EXCEPT !.rcaRuns = @ + 1, !.llmOther = TRUE,
                                       !.lastLlm = llm.kind]
          ELSE /\ state' = RcaResult(state, llm)
               /\ pcMain' = "should_retry"
               /\ hist' = [hist EXCEPT !.rcaRuns = @ + 1,
                                       !.llmOther = @ \/ llm.kind # "timeout",
                                       !.llmTimeout = @ \/ llm.kind = "timeout",
                                       !.lastLlm = llm.kind]
               /\ UNCHANGED error
    /\ UNCHANGED << api, pcInfra, pcData, fetch, tr, store, wrote >>

(***************************************************************************)
(* The workflow of graph.create_workflow.                                  *)
(***************************************************************************)
JoinReady_Either == pcInfra = "done" \/ pcData = "done"

\* "Both branches must complete before RCA": the edges infra_agent ->
\* rca_agent and evidence_quality -> rca_agent
JoinReady == pcInfra = "done" /\ pcData = "done"

Join ==
    /\ pcMain = "join" /\ JoinReady
    /\ pcMain' = "rca_agent"
    /\ UNCHANGED << api, state, pcInfra, pcData, error, fetch, tr, store, wrote, hist >>

should_retry_OffByOne(st) ==
    IF st.needs_more_evidence /\ st.attempt_count <= st.max_attempts
    THEN "retry"
    ELSE "finalize"

should_retry_Unbounded(st) ==
    IF st.needs_more_evidence THEN "retry" ELSE "finalize"

should_retry_IgnoresConfidence(st) ==
    IF st.attempt_count < st.max_attempts THEN "retry" ELSE "finalize"

should_retry(st) ==
    IF st.needs_more_evidence /\ st.attempt_count < st.max_attempts
    THEN "retry"
    ELSE "finalize"

RouteTarget_SkipsIncrement(label) ==
    IF label = "retry" THEN "rca_agent" ELSE "finalize"

\* a mapping that ends the run without the finalize node
RouteTarget_SkipsFinalize(label) ==
    IF label = "retry" THEN "increment_attempt" ELSE "END"

\* the mapping of the conditional edge
RouteTarget(label) ==
    IF label = "retry" THEN "increment_attempt" ELSE "finalize"

Route ==
    /\ pcMain = "should_retry"
    /\ pcMain' = RouteTarget(should_retry(state))
    /\ hist' = [hist EXCEPT !.routes = @ + 1]
    /\ UNCHANGED << api, state, pcInfra, pcData, error, fetch, tr, store, wrote >>

increment_attempt ==
    /\ pcMain = "increment_attempt"
    /\ state.attempt_count < CounterCap
    /\ state' = Assign(state, [attempt_count |-> state.attempt_count + 1])
    /\ pcMain' = "rca_agent"
    /\ hist' = [hist EXCEPT !.incs = @ + 1]
    /\ UNCHANGED << api, pcInfra, pcData, error, fetch, tr, store, wrote >>

finalize_report_DropsDegraded(st) ==
    [incident_id |-> st.incident_id,
     layer |-> st.layer,
     root_nf |-> st.root_nf,
     failure_mode |-> st.failure_mode,
     confidence |-> st.confidence,
     evidence_chain |-> st.evidence_chain,
     infra_score |-> st.infra_score,
     evidence_quality_score |-> st.evidence_quality_score,
     degraded_mode |-> FALSE,
     attempt_count |-> st.attempt_count]

finalize_report(st) ==
    [incident_id |-> st.incident_id,
     layer |-> st.layer,
     root_nf |-> st.root_nf,
     failure_mode |-> st.failure_mode,
     confidence |-> st.confidence,
     evidence_chain |-> st.evidence_chain,
     infra_score |-> st.infra_score,
     evidence_quality_score |-> st.evidence_quality_score,
     degraded_mode |-> st.degraded_mode,
     attempt_count |-> st.attempt_count]

finalize ==
    /\ pcMain = "finalize"
    /\ state' = Assign(state, [final_report |-> Some(finalize_report(state))])
    /\ pcMain' = "END"
    /\ hist' = [hist EXCEPT !.finals = @ + 1]
    /\ UNCHANGED << api, pcInfra, pcData, error, fetch, tr, store, wrote >>

Next ==
    \/ infra_agent
    \/ MetricsBegin
    \/ PrometheusQuery
    \/ MetricsReturn
    \/ LogsBegin
    \/ Probe
    \/ LokiQuery
    \/ LogsReturn
    \/ TracesBegin
    \/ TracesDiscovered
    \/ TracesImsiTraced
    \/ TracesStoreAndReturn
    \/ compute_evidence_quality
    \/ Join
    \/ rca_agent_first_attempt
    \/ Route
    \/ increment_attempt
    \/ finalize

Spec == Init /\ [][Next]_vars

\* the engine runs every node that is ready: no enabled step is postponed
\* forever
FairSpec == Spec /\ WF_vars(Next)

TypeOK ==
    /\ pcInfra \in {"infra_agent", "done"}
    /\ pcData \in {"metrics_agent", "logs_agent", "traces_agent",
                   "evidence_quality", "done"}
    /\ pcMain \in {"join", "rca_agent", "should_retry", "increment_attempt",
                   "finalize", "END", "failed"}
    /\ state.attempt_count \in 1..CounterCap
    /\ hist.rcaRuns \in 0..CounterCap

(***************************************************************************)
(* The graph store driven call by call, as the store tests drive it:       *)
(* ingest_captured_trace, detect_deviation and cleanup_incident_traces     *)
(* with arbitrary arguments, each call meeting any attempt outcomes.       *)
(***************************************************************************)
\* most CapturedTrace records that the store holds
MaxRecords == 2

\* no run is in progress: the run's variables stay as get_initial_state and
\* the constructors leave them
RunIdle ==
    /\ state = get_initial_state([startsAt |-> "valid"], IncidentId, 1)
    /\ pcInfra = "infra_agent"
    /\ pcData = "metrics_agent"
    /\ pcMain = "join"
    /\ error = None
    /\ fetch = IdleFetch
    /\ tr = IdleTr
    /\ wrote = [infra |-> {}, data |-> {}]
    /\ hist = InitHist

\* the (incident, IMSI) keys the calls use
StoreIncidents == {"inc-1", "inc-2"}
StoreImsis == {1, 2}
StoreKeys == {[incident_id |-> "inc-1", imsi |-> 1],
              [incident_id |-> "inc-2", imsi |-> 2]}
DagNames == {Some("Registration_General"), Some("Unknown_Procedure")}

\* an event that carries an order and an action text
Ev(order, action) == [order |-> Some(order), action |-> Some(action), nf |-> "amf"]
\* action texts: one that contains step 1's text, one that does not, one
\* that does not contain step 2's text
Act1Ok == << "UE", "Registration", "Request" >>
Act1Bad == << "Deregistration", "Request" >>
Act2Bad == << "Authentication_Failure" >>

\* the event lists handed to ingest_captured_trace: no event; order 1 only,
\* matching; a mismatch at order 2 only; mismatches at both orders, the
\* larger order first; an event without order and action (what
\* contract_imsi_trace builds)
TraceInputs ==
    {<< >>,
     << Ev(1, Act1Ok) >>,
     << Ev(1, Act1Ok), Ev(2, Act2Bad) >>,
     << Ev(2, Act2Bad), Ev(1, Act1Bad) >>,
     << [order |-> None, action |-> None, nf |-> "amf"] >>}

StoreInit ==
    /\ RunIdle
    /\ store = << >>
    /\ api = ApiIdle

\* one call of the connection's API: what it was given, what its attempts
\* met (env), how the call went (call) and what it returned (result)
ApiCall(op, incident_id, imsi, dag_name, events, env, call, result) ==
    [op |-> op, incident_id |-> incident_id, imsi |-> imsi,
     dag_name |-> dag_name, events |-> events, env |-> env,
     call |-> call, result |-> result]

IngestCall ==
    /\ Len(store) < MaxRecords
    /\ \E key \in StoreKeys, events \in TraceInputs, env \in RunEnvs :
         LET call == execute_cypher_write(env)
         IN /\ store' = IF call.status = "ok"
                        THEN ingest_captured_trace(store, key.incident_id,
                                                   key.imsi, events)
                        ELSE store
            /\ api' = ApiCall("ingest", key.incident_id, key.imsi, None,
                              events, env, call, None)
    /\ UNCHANGED << state, pcInfra, pcData, pcMain, error, fetch, tr, wrote, hist >>

DetectCall ==
    /\ \E inc \in StoreIncidents, imsi \in StoreImsis, name \in DagNames,
          env \in RunEnvs :
         LET call == execute_cypher(env, memgraph_max_retries)
         IN api' = ApiCall("detect", inc, imsi, name, << >>, env, call,
                           IF call.status = "ok"
                           THEN detect_deviation(store, inc, imsi, name)
                           ELSE None)
    /\ UNCHANGED << state, pcInfra, pcData, pcMain, error, fetch, tr, store,
                    wrote, hist >>

CleanupCall ==
    /\ \E inc \in StoreIncidents, env \in RunEnvs :
         LET call == execute_cypher_write(env)
         IN /\ store' = IF call.status = "ok"
                        THEN cleanup_incident_traces(store, inc)
                        ELSE store
            /\ api' = ApiCall("cleanup", inc, 0, None, << >>, env, call, None)
    /\ UNCHANGED << state, pcInfra, pcData, pcMain, error, fetch, tr, wrote, hist >>

\* execute_cypher called directly with its max_retries argument, whatever
\* its attempts meet
QueryCall ==
    /\ \E retries \in 1..memgraph_max_retries, env \in CypherEnvs :
         api' = [op |-> "query", retries |-> retries, env |-> env,
                 call |-> execute_cypher(env, retries)]
    /\ UNCHANGED << state, pcInfra, pcData, pcMain, error, fetch, tr, store,
                    wrote, hist >>

StoreNext == IngestCall \/ DetectCall \/ CleanupCall \/ QueryCall

StoreSpec == StoreInit /\ [][StoreNext]_vars

(***************************************************************************)
(* The two parsers of a Loki query_range answer, applied to one answer:    *)
(* MCPClient.query_loki followed by the pod normalisation of               *)
(* _fetch_loki_logs (primary path), and _parse_loki_response (fallback).   *)
(***************************************************************************)
\* values of a stream label
LabelValues == {"", "amf-1", "upf-1"}
\* the labels of a stream: each of the two pod labels is absent or present
StreamLabels == [k8s_pod_name : {None} \cup {Some(v) : v \in LabelValues},
                 pod : {None} \cup {Some(v) : v \in LabelValues}]
\* the level keywords a message contains, in upper case
Messages == {{}, {"ERROR"}, {"WARN", "DEBUG"}}
\* nanosecond timestamps of a value
Nanos == {1999999999, 2000000000}
\* an answer with one stream that has one value
LokiResponses ==
    {<< [labels |-> l, ts |-> t, message |-> m] >> :
        l \in StreamLabels, t \in Nanos, m \in Messages}

\* dict.get(key, default)
Get(labels, key, default) ==
    IF labels[key] = None THEN default ELSE labels[key][1]

extract_log_level(message) ==
    IF "FATAL" \in message THEN "FATAL"
    ELSE IF "ERROR" \in message THEN "ERROR"
    ELSE IF "WARN" \in message THEN "WARN"
    ELSE IF "INFO" \in message THEN "INFO"
    ELSE IF "DEBUG" \in message THEN "DEBUG"
    ELSE "INFO"

\* logs_agent._parse_loki_response (the same function is in ue_traces_agent)
parse_loki_response(data) ==
    [i \in 1..Len(data) |->
        [timestamp |-> data[i].ts \div 1000000000,
         message |-> data[i].message,
         labels |-> data[i].labels,
         pod |-> Get(data[i].labels, "k8s_pod_name",
                     Get(data[i].labels, "pod", "")),
         level |-> extract_log_level(data[i].message)]]

\* the parsing loop of MCPClient.query_loki
query_loki(data) ==
    [i \in 1..Len(data) |->
        [timestamp |-> data[i].ts \div 1000000000,
         message |-> data[i].message,
         labels |-> data[i].labels,
         pod |-> Get(data[i].labels, "pod", ""),
         level |-> extract_log_level(data[i].message)]]

\* _fetch_loki_logs: the entries of query_loki, an empty pod replaced by the
\* k8s_pod_name label
fetch_loki_logs(data) ==
    LET results == query_loki(data)
    IN [i \in 1..Len(results) |->
          IF results[i].pod = ""
          THEN [results[i] EXCEPT !.pod = Get(results[i].labels, "k8s_pod_name", "")]
          ELSE results[i]]

ParseInit ==
    /\ RunIdle
    /\ store = << >>
    /\ \E r \in LokiResponses :
          api = [op |-> "parse", response |-> r, mcp |-> None, direct |-> None]

ParseViaMcp ==
    /\ api.op = "parse" /\ api.mcp = None
    /\ api' = [api EXCEPT !.mcp = Some(fetch_loki_logs(api.response))]
    /\ UNCHANGED << state, pcInfra, pcData, pcMain, error, fetch, tr, store,
                    wrote, hist >>

ParseDirect ==
    /\ api.op = "parse" /\ api.direct = None
    /\ api' = [api EXCEPT !.direct = Some(parse_loki_response(api.response))]
    /\ UNCHANGED << state, pcInfra, pcData, pcMain, error, fetch, tr, store,
                    wrote, hist >>

ParseNext == ParseViaMcp \/ ParseDirect

ParseSpec == ParseInit /\ [][ParseNext]_vars

(***************************************************************************)
(* The scorers and the decision step driven directly, as their unit tests  *)
(* drive them: the infrastructure functions over a metrics dict, the       *)
(* decision step over the state those functions leave, and the             *)
(* evidence-quality step over a state with any evidence present.           *)
(***************************************************************************)
PodEntry(pod, value) == [pod |-> pod, value |-> value]
PhaseEntry(pod, phase) == [pod |-> pod, phase |-> phase]

\* restart counts on either side of the three restart thresholds
RestartInputs ==
    {<< >>, << PodEntry("amf-1", 1) >>, << PodEntry("amf-1", 3) >>,
     << PodEntry("amf-1", 6) >>,
     << PodEntry("amf-1", 6), PodEntry("smf-1", 0) >>}
\* the OOM query answers one series per container whose last termination was
\* an OOM kill; its value is the number of kills inside the window
OomInputs ==
    {<< >>, << PodEntry("amf-1", 0) >>, << PodEntry("amf-1", 1) >>,
     << PodEntry("amf-1", 0), PodEntry("smf-1", 2) >>}
StatusInputs ==
    {<< >>, << PhaseEntry("amf-1", "Running") >>,
     << PhaseEntry("amf-1", "Pending") >>, << PhaseEntry("amf-1", "Failed") >>,
     << PhaseEntry("amf-1", "Pending"), PhaseEntry("smf-1", "Unknown") >>,
     << PhaseEntry("amf-1", "CrashLoopBackOff") >>}
\* memory in percent, CPU in hundredths of a core
MemoryInputs == {<< >>, << PodEntry("amf-1", 95) >>}
CpuInputs == {<< PodEntry("amf-1", 30) >>, << PodEntry("amf-1", 150) >>}

MetricsInputs ==
    [pod_restarts : RestartInputs, oom_kills : OomInputs,
     pod_status : StatusInputs, memory_percent : MemoryInputs,
     cpu_usage : CpuInputs]

\* the findings dict that the timeout test of the decision step writes
TestFindings == [words |-> {"OOMKilled"}]

LogEntry(nf, message) == [nf |-> nf, message |-> message]
LogInputs ==
    {None,
     Some(<< LogEntry("amf", {"error"}) >>),
     Some(<< LogEntry("amf", {"error"}), LogEntry("smf", {"timeout"}) >>),
     Some(<< LogEntry("ausf", {"auth", "fail"}) >>)}

\* evidence-quality scores below, at and above high_evidence_threshold
QualityInputs ==
    {eq_score_traces_only, eq_score_metrics_logs, eq_score_traces_plus_one}

\* the state a test hands to the decision step
DecisionState(score, findings, logs, quality) ==
    [get_initial_state([startsAt |-> "valid"], IncidentId, 1) EXCEPT
        !.infra_checked = TRUE,
        !.infra_score = score,
        !.infra_findings = Some(findings),
        !.logs = logs,
        !.evidence_quality_score = quality]

\* the state a test hands to the evidence-quality step
EvidenceState(metrics, logs, traces_ready) ==
    [get_initial_state([startsAt |-> "valid"], IncidentId, 1) EXCEPT
        !.metrics = metrics,
        !.logs = logs,
        !.traces_ready = traces_ready]

EvidenceInputs ==
    {EvidenceState(m, l, t) :
        m \in {None, Some({}), Some({[nf |-> "amf", q |-> DiscoveryQuery]})},
        l \in {None, Some(<< >>), Some(<< LogEntry("amf", {"error"}) >>)},
        t \in BOOLEAN}

ScorerInit ==
    /\ RunIdle
    /\ store = << >>
    /\ \/ \E m \in MetricsInputs : api = [op |-> "metrics", metrics |-> m]
       \/ \E st \in EvidenceInputs : api = [op |-> "evidence", st |-> st]

\* compute_infrastructure_score and the extract_* helpers on one metrics dict
ScoreCall ==
    /\ api.op = "metrics"
    /\ api' = [op |-> "infra", metrics |-> api.metrics,
               score |-> compute_infrastructure_score(api.metrics),
               oom_events |-> extract_oom_events(api.metrics),
               findings |-> infra_findings_of(api.metrics)]
    /\ UNCHANGED << state, pcInfra, pcData, pcMain, error, fetch, tr, store,
                    wrote, hist >>

\* rca_agent_first_attempt on a state that carries the score; the findings
\* are those of the infrastructure functions or the hand-written ones of the
\* timeout test; result is None when the reasoning call raised
DecisionCall ==
    /\ api.op = "infra"
    /\ \E findings \in {api.findings, TestFindings}, logs \in LogInputs,
          quality \in QualityInputs, llm \in LLMOutcomes :
          LET st == DecisionState(api.score, findings, logs, quality)
          IN api' = [op |-> "rca_agent_first_attempt",
                     metrics |-> api.metrics, st |-> st, llm |-> llm,
                     result |-> IF llm.kind = "error" THEN None
                                ELSE Some(RcaResult(st, llm))]
    /\ UNCHANGED << state, pcInfra, pcData, pcMain, error, fetch, tr, store,
                    wrote, hist >>

\* compute_evidence_quality on one state
QualityCall ==
    /\ api.op = "evidence"
    /\ api' = [op |-> "compute_evidence_quality", st |-> api.st,
               result |-> Assign(api.st, EvidenceQualityUpdate(api.st))]
    /\ UNCHANGED << state, pcInfra, pcData, pcMain, error, fetch, tr, store,
                    wrote, hist >>

ScorerNext == ScoreCall \/ DecisionCall \/ QualityCall

ScorerSpec == ScorerInit /\ [][ScorerNext]_vars

(***************************************************************************)
(* Properties.                                                             *)
(***************************************************************************)
Running == pcMain \in {"rca_agent", "should_retry", "increment_attempt",
                       "finalize", "END"}

C2_AlwaysReachesDone == (pcMain = "rca_agent") ~> (pcMain = "END")

\* C2 amended: from any entry into the decision step the run ends after
\* finitely many steps, at done unless a reasoning call raised an error other
\* than a timeout (which aborts the run); low confidence never loops forever.
C2_ReachesDoneOrAborts ==
    (pcMain = "rca_agent") ~> (pcMain = "END" \/ error = Some("rca_agent"))

C2_Witness ==
    /\ pcMain = "END"
    /\ hist.rcaRuns = state.max_attempts
    /\ hist.rcaRuns >= 2
    /\ state.needs_more_evidence
    /\ ~state.degraded_mode

\* C3: after a decision step the engine goes to the retry step iff
\* needs_more_evidence and attempt_count < max_attempts, and to finalize in
\* every other case.
C3_Routing ==
    [][pcMain = "should_retry" =>
          /\ pcMain' = "increment_attempt" <=>
                (state.needs_more_evidence /\ state.attempt_count < state.max_attempts)
          /\ pcMain' # "increment_attempt" => pcMain' = "finalize"]_vars

C3_Witness ==
    /\ pcMain = "finalize"
    /\ state.needs_more_evidence
    /\ state.attempt_count = state.max_attempts
    /\ hist.incs >= 1

InfraFields == {"infra_checked", "infra_score", "infra_findings"}
DataFields == {"metrics", "logs", "discovered_imsis", "traces_ready",
               "trace_deviations", "evidence_quality_score"}

C5_DisjointWrites ==
    /\ wrote.infra \subseteq InfraFields
    /\ wrote.data \subseteq DataFields
    /\ wrote.infra \cap wrote.data = {}

C5_Witness == wrote.infra = InfraFields /\ wrote.data = DataFields

\* C6: a decision step starts only when every earlier decision step has been
\* routed and followed by its attempt increment: attempt N+1 starts after
\* attempt N and its downstream effects.
C6_SequentialRetry ==
    pcMain = "rca_agent" =>
        /\ hist.routes = hist.rcaRuns
        /\ hist.incs = hist.rcaRuns
        /\ state.attempt_count = hist.rcaRuns + 1

C6_Witness == pcMain = "rca_agent" /\ hist.rcaRuns = 2 /\ hist.incs = 2

\* C7: a run whose backend queries all failed and whose reasoning call times
\* out on every attempt reaches finalize, and its final report is present and
\* shows the degraded mode and the low confidence.
ReportDegraded ==
    /\ state.final_report # None
    /\ state.final_report[1].degraded_mode
    /\ state.final_report[1].confidence < min_confidence_relaxed
    /\ state.final_report[1].attempt_count = state.max_attempts

C7_DegradedRunFinalizes ==
    (pcMain = "rca_agent" /\ ~hist.queryOk)
        ~> (hist.llmOther \/ (pcMain = "END" /\ ReportDegraded))

C7_Witness ==
    /\ pcMain = "END"
    /\ state.dag = Some(DagOneNf)
    /\ ~hist.queryOk /\ ~hist.llmOther
    /\ ReportDegraded

\* C8: within one invocation of the two-path fetch a successful probe means
\* every call went to the primary (MCP) path, a failed probe means every call
\* went to the fallback (direct) path, and no query is issued twice.
C8_OnePathPerInvocation ==
    fetch.owner \in LogOwners =>
        /\ \A i \in DOMAIN fetch.calls :
              fetch.calls[i].path = IF fetch.probed = "ready" THEN "mcp" ELSE "direct"
        /\ \A i, j \in DOMAIN fetch.calls :
              i # j => fetch.calls[i].q # fetch.calls[j].q

C8_Witness ==
    /\ fetch.owner = "logs_agent" /\ fetch.stage = "done"
    /\ fetch.probed = "ready"
    /\ fetch.calls # << >>
    /\ fetch.calls[Len(fetch.calls)].outcome # "ok"

\* C9: an invocation of the two-path fetch probes exactly once, before its
\* first query; nothing is queried without that probe and no second probe
\* follows.
C9_ProbeOnceBeforeQueries ==
    fetch.owner \in LogOwners =>
        /\ fetch.probes <= 1
        /\ (fetch.stage = "query" \/ fetch.calls # << >>) => fetch.probes = 1
        /\ fetch.probes = 1 <=> fetch.probed # "none"

C9_Witness ==
    /\ fetch.owner = "logs_agent" /\ fetch.stage = "done"
    /\ Len(fetch.calls) = 2
    /\ fetch.probes = 1

\* C10: when a batch is over, the records of every query of the batch that
\* succeeded are in the returned list, whatever happened to its siblings.
C10_FailureIsolation ==
    fetch.stage = "done" =>
        \A i \in DOMAIN fetch.calls :
            fetch.calls[i].outcome = "ok" =>
                \E k \in DOMAIN fetch.results : fetch.results[k].q = fetch.calls[i].q

\* C11: a step of an evidence fetch (health probe or backend query) never
\* raises to the collector, whatever the probe answers and however the
\* queries fail: the run is not aborted by it and the fetch goes on to its
\* next query or to its end, where it hands back its list of records.
C11_FetchNeverRaises ==
    [][(fetch.stage \in {"probe", "query"} /\ fetch' # fetch) =>
          /\ error' = None /\ pcMain' = pcMain
          /\ fetch'.owner = fetch.owner
          /\ fetch'.stage \in {"query", "done"}
          /\ fetch'.stage = "done" => fetch'.pending = << >>]_vars

C11_Witness ==
    /\ fetch.owner = "traces_imsi" /\ fetch.stage = "done"
    /\ fetch.probed = "ready"
    /\ fetch.calls # << >>
    /\ fetch.calls[Len(fetch.calls)].outcome = "connect_error"
    /\ fetch.results = << >>
    /\ error = None

\* C12 as claimed: every collector falls back, so a query meets a refused
\* connection on the intermediary's path only in an invocation whose probe
\* had found the intermediary ready.
C12_EveryCollectorFallsBack ==
    \A i \in DOMAIN fetch.calls :
        (fetch.calls[i].path = "mcp" /\ fetch.calls[i].outcome = "connect_error")
            => fetch.probed = "ready"

\* the queries an invocation of the two-path fetch was given
BatchOf(owner) ==
    IF owner = "logs_agent" THEN build_loki_queries(state.dag[1])
    ELSE IF owner = "traces_discovery" THEN << DiscoveryQuery >>
    ELSE << per_imsi_logql(tr.imsis[tr.next]) >>

\* C12 amended: the log collector and the trace collector use the two-path
\* fetch: when the probe does not find the intermediary ready, every query
\* of the invocation is issued on the direct path and none is dropped.  The
\* metrics collector has one path: no probe, every query through the
\* intermediary's client.
C12_LogCollectorsFallBack ==
    /\ (fetch.owner \in LogOwners /\ fetch.probed \in {"not_ready", "error"}) =>
          /\ \A i \in DOMAIN fetch.calls : fetch.calls[i].path = "direct"
          /\ fetch.stage = "done" =>
                [i \in DOMAIN fetch.calls |-> fetch.calls[i].q] = BatchOf(fetch.owner)
    /\ fetch.owner = "metrics_agent" =>
          /\ fetch.probes = 0
          /\ \A i \in DOMAIN fetch.calls : fetch.calls[i].path = "mcp"

C12_Witness ==
    /\ fetch.owner = "logs_agent" /\ fetch.stage = "done"
    /\ fetch.probed = "error"
    /\ Len(fetch.calls) = 2
    /\ fetch.calls[1].outcome = "connect_error"
    /\ fetch.calls[2].outcome = "ok"
    /\ fetch.results # << >>

\* C13: for one backend answer the primary path and the fallback path give
\* the same normalized records, the pod (participant) field included.
C13_PathsAgree ==
    (api.op = "parse" /\ api.mcp # None /\ api.direct # None) =>
        api.mcp = api.direct

\* the captured events of the detect call's key
KeyEvents ==
    UNION {{store[k].events[i] : i \in 1..Len(store[k].events)} :
              k \in {j \in 1..Len(store) :
                        /\ store[j].incident_id = api.incident_id
                        /\ store[j].imsi = api.imsi}}

\* the orders of the named procedure at which a captured event of the key
\* has an action text that does not contain the step's text
MismatchOrders ==
    LET ref == RefSteps(api.dag_name)
    IN {ref[s].order : s \in {t \in 1..Len(ref) :
            \E e \in KeyEvents :
                /\ e.order = Some(ref[t].order)
                /\ ~Contains(e.action[1], ref[t].action)}}

\* C14: a detect_deviation call that went through returns None when no
\* shared order has a mismatching action text, and otherwise the mismatch
\* with the smallest order, with that step's expected text.
C14_SmallestMismatch ==
    (api.op = "detect" /\ api.call.status = "ok") =>
        IF MismatchOrders = {}
        THEN api.result = None
        ELSE /\ api.result # None
             /\ \A o \in MismatchOrders : api.result[1].deviation_point <= o
             /\ api.result[1].deviation_point \in MismatchOrders
             /\ \E s \in 1..Len(RefSteps(api.dag_name)) :
                   /\ RefSteps(api.dag_name)[s].order = api.result[1].deviation_point
                   /\ RefSteps(api.dag_name)[s].action = api.result[1].expected

C14_Witness ==
    /\ api.op = "detect" /\ api.call.status = "ok"
    /\ MismatchOrders = {1, 2}
    /\ api.result # None
    /\ api.result[1].deviation_point = 1

\* C15: a cleanup of an incident that went through leaves no captured trace
\* of that incident in the store, however many events its traces have, and
\* leaves the traces of every other incident as they were.
C15_CleanupRemovesAll ==
    [][(api'.op = "cleanup" /\ api'.call.status = "ok") =>
          /\ \A k \in 1..Len(store') : store'[k].incident_id # api'.incident_id
          /\ SelectSeq(store', LAMBDA r : r.incident_id # api'.incident_id)
               = SelectSeq(store, LAMBDA r : r.incident_id # api'.incident_id)]_vars

\* C16: every store operation retries a transient error: a call that meets
\* one goes on to a further attempt, up to memgraph_max_retries attempts,
\* and sleeps 2^attempt between two attempts.
C16_EveryOperationRetries ==
    api.op \in {"ingest", "detect", "cleanup"} =>
        /\ (api.env[1] = "transient" /\ api.env[2] = "ok") =>
              api.call.status = "ok" /\ api.call.attempts = 2
        /\ (\A i \in 1..memgraph_max_retries : api.env[i] = "transient") =>
              api.call.status = "raised" /\ api.call.attempts = memgraph_max_retries
        /\ api.call.sleeps = [i \in 1..(api.call.attempts - 1) |-> 2 ^ (i - 1)]

\* C17: when a store operation of the trace-collection step raised (a write
\* failed, or a read failed at every one of its attempts) the step raised
\* too: the run ended with that exception and none of the step's result
\* fields was written.
C17_StoreFailurePropagates ==
    hist.storeRaised =>
        /\ pcMain = "failed" /\ error = Some("traces_agent")
        /\ pcData = "traces_agent"
        /\ ~state.traces_ready
        /\ state.trace_deviations = None
        /\ state.discovered_imsis = None

C17_Witness ==
    /\ hist.storeRaised
    /\ error = Some("traces_agent")
    /\ store # << >>

\* C18: an ingest call that went through appends one record with the call's
\* key and exactly the call's events, whether or not a record of that key
\* exists; every earlier record stays as it was.  A call that raised leaves
\* the store as it was.
C18_IngestAppendsOneRecord ==
    [][api'.op = "ingest" =>
          IF api'.call.status = "ok"
          THEN store' = Append(store, [incident_id |-> api'.incident_id,
                                       imsi |-> api'.imsi,
                                       events |-> api'.events])
          ELSE store' = store]_vars

C18_Witness ==
    /\ api.op = "ingest" /\ api.call.status = "ok"
    /\ Len(store) = 2
    /\ store[1].incident_id = store[2].incident_id
    /\ store[1].imsi = store[2].imsi
    /\ store[1].events # store[2].events
    /\ store[2].events # << >>

\* C19: every captured trace that a run ingests is deleted later on: a
\* store that holds traces of the incident gets empty again.
C19_TracesCleanedUp == (store # << >>) ~> (store = << >>)

\* C20: after a decision step the degraded-mode flag is set exactly when
\* the step's reasoning call timed out; it comes with a reason string, and
\* a call that returned leaves the flag cleared and the reason None.
C20_DegradedIffTimeout ==
    pcMain \in {"should_retry", "increment_attempt", "finalize", "END"} =>
        /\ state.degraded_mode <=> hist.lastLlm = "timeout"
        /\ state.degraded_mode => state.degraded_reason # None
        /\ ~state.degraded_mode => state.degraded_reason = None

C20_Witness ==
    /\ pcMain = "should_retry"
    /\ hist.llmTimeout /\ hist.lastLlm = "ok"
    /\ ~state.degraded_mode
    /\ state.degraded_reason = None

\* a timed-out decision call of the scorer specification
TimedOutDecision ==
    /\ api.op = "rca_agent_first_attempt"
    /\ api.llm.kind = "timeout"

\* C21: in degraded mode the rule-based analysis yields an
\* infrastructure-layer result exactly when the infra score is above (greater
\* than) the high threshold, and an application-layer result otherwise.
C21_InfraIffAboveThreshold ==
    TimedOutDecision =>
        IF api.st.infra_score > infra_root_cause_threshold
        THEN api.result[1].layer = "infrastructure"
        ELSE api.result[1].layer = "application"

\* C21 amended: the rule-based analysis yields an infrastructure-layer
\* result exactly when the infra score is at or above the high threshold
\* (a score equal to the threshold counts), and an application-layer result
\* otherwise.
C21_InfraIffAtOrAboveThreshold ==
    TimedOutDecision =>
        IF api.st.infra_score >= infra_root_cause_threshold
        THEN api.result[1].layer = "infrastructure"
        ELSE api.result[1].layer = "application"

C21_Witness ==
    /\ TimedOutDecision
    /\ api.st.infra_score = infra_root_cause_threshold
    /\ api.st.infra_score = compute_infrastructure_score(api.metrics)
    /\ api.result[1].layer = "infrastructure"
    /\ api.result[1].degraded_mode

\* C22: a decision call that times out on a state with infra score 0.85
\* whose findings are those the infrastructure step records for metrics with
\* an OOM-kill event gives layer "infrastructure", failure mode "OOMKilled",
\* the "specific" degraded confidence and the degraded flag.
C22_OomTimeoutIsSpecific ==
    (/\ TimedOutDecision
     /\ api.st.infra_score = 85
     /\ DOMAIN extract_oom_events(api.metrics) # {}
     /\ api.st.infra_findings = Some(infra_findings_of(api.metrics)))
    => /\ api.result[1].layer = "infrastructure"
       /\ api.result[1].failure_mode = Some("OOMKilled")
       /\ api.result[1].confidence = degraded_conf_infra_specific
       /\ api.result[1].degraded_mode

\* C23: a decision call that returns sets needs_more_evidence iff the result
\* confidence is strictly below the threshold: min_confidence_default, or
\* min_confidence_relaxed when the evidence-quality score is at least
\* high_evidence_threshold.
C23_ConfidenceGate ==
    (api.op = "rca_agent_first_attempt" /\ api.result # None) =>
        LET r == api.result[1]
            threshold == IF r.evidence_quality_score >= high_evidence_threshold
                         THEN min_confidence_relaxed
                         ELSE min_confidence_default
        IN r.needs_more_evidence <=> r.confidence < threshold

C23_Witness ==
    /\ api.op = "rca_agent_first_attempt" /\ api.llm.kind = "ok"
    /\ api.result[1].evidence_quality_score = high_evidence_threshold
    /\ api.result[1].confidence = min_confidence_relaxed
    /\ ~api.result[1].needs_more_evidence

\* the decision step just ended (or finalize is about to run) with a
\* confidence at or above the threshold of the gate
ConfidentDecision ==
    /\ pcMain \in {"should_retry", "finalize"}
    /\ state.confidence >=
          (IF state.evidence_quality_score >= high_evidence_threshold
           THEN min_confidence_relaxed ELSE min_confidence_default)

\* C24: when a decision step ends with confidence at or above the threshold
\* the next step of the run is finalize, the run gets to its end, and on the
\* way no decision step runs and the attempt count is not incremented.
C24_ConfidentRunFinalizes ==
    /\ [][ConfidentDecision =>
            /\ pcMain' = IF pcMain = "should_retry" THEN "finalize" ELSE "END"
            /\ hist'.rcaRuns = hist.rcaRuns
            /\ hist'.incs = hist.incs
            /\ state'.attempt_count = state.attempt_count]_vars
    /\ (ConfidentDecision ~> pcMain = "END")

C24_Witness ==
    /\ pcMain = "END"
    /\ ~state.needs_more_evidence
    /\ hist.rcaRuns = 2 /\ hist.incs = 1
    /\ state.attempt_count = 2 /\ state.max_attempts = 3
    /\ hist.finals = 1

\* C25: for every metrics dict, whatever categories are present and whatever
\* their values, the infrastructure score lies in [0, 1].
C25_ScoreInUnitInterval ==
    api.op = "infra" => api.score \in 0..100

C25_Witness ==
    /\ api.op = "infra"
    /\ api.score = 100
    /\ Len(api.metrics.pod_restarts) = 2
    /\ Len(api.metrics.pod_status) = 2

\* the part of the score that the OOM factor contributes
OomContribution ==
    api.score
      - compute_infrastructure_score([api.metrics EXCEPT !.oom_kills = << >>])

\* C26: the OOM factor of the score is 1.0 iff at least one OOM-kill event
\* was observed (extract_oom_events is not empty), and 0.0 otherwise.
C26_OomFactorIffEvent ==
    api.op = "infra" =>
        /\ OomContribution \in {0, infra_weight_oom}
        /\ OomContribution = infra_weight_oom <=> DOMAIN api.oom_events # {}

\* the documented evidence-quality value of a combination of sources
DocumentedQuality(metrics, logs, traces) ==
    IF metrics /\ logs /\ traces THEN 95
    ELSE IF traces /\ (metrics \/ logs) THEN 85
    ELSE IF metrics /\ logs THEN 80
    ELSE IF traces THEN 50
    ELSE IF metrics THEN 40
    ELSE IF logs THEN 35
    ELSE 10

\* a source that is present and not empty
NonEmptyDict(opt) == opt # None /\ opt # Some({})
NonEmptyList(opt) == opt # None /\ opt # Some(<< >>)

\* C27: for each of the 8 combinations of (metrics present and non-empty,
\* logs present and non-empty, traces collected) the evidence-quality score
\* is the documented value; an empty container counts as absent.
C27_QualityLookup ==
    api.op = "compute_evidence_quality" =>
        api.result.evidence_quality_score =
            DocumentedQuality(NonEmptyDict(api.st.metrics),
                              NonEmptyList(api.st.logs),
                              api.st.traces_ready)

C27_Witness ==
    /\ api.op = "compute_evidence_quality"
    /\ api.st.metrics = Some({})
    /\ NonEmptyList(api.st.logs)
    /\ api.st.traces_ready
    /\ api.result.evidence_quality_score = 85

\* the score of the computed state once the given sources are added to it
ScoreWith(metrics, logs, traces) ==
    quality_score(metrics \/ TruthyDict(api.st.metrics),
                  logs \/ TruthyList(api.st.logs),
                  traces \/ api.st.traces_ready)

\* C28: adding a source never lowers the evidence-quality score, and the
\* scores are ordered: all three > traces plus exactly one other > metrics
\* and logs only > traces alone > metrics alone > logs alone > none.
C28_QualityMonotone ==
    api.op = "compute_evidence_quality" =>
        /\ \A m, l, t \in BOOLEAN :
              ScoreWith(m, l, t) >= api.result.evidence_quality_score
        /\ quality_score(TRUE, TRUE, TRUE) > quality_score(TRUE, FALSE, TRUE)
        /\ quality_score(TRUE, FALSE, TRUE) = quality_score(FALSE, TRUE, TRUE)
        /\ quality_score(FALSE, TRUE, TRUE) > quality_score(TRUE, TRUE, FALSE)
        /\ quality_score(TRUE, TRUE, FALSE) > quality_score(FALSE, FALSE, TRUE)
        /\ quality_score(FALSE, FALSE, TRUE) > quality_score(TRUE, FALSE, FALSE)
        /\ quality_score(TRUE, FALSE, FALSE) > quality_score(FALSE, TRUE, FALSE)
        /\ quality_score(FALSE, TRUE, FALSE) > quality_score(FALSE, FALSE, FALSE)

C28_Witness ==
    /\ api.op = "compute_evidence_quality"
    /\ api.result.evidence_quality_score = eq_score_logs_only
    /\ ScoreWith(TRUE, FALSE, FALSE) = eq_score_metrics_logs
    /\ ScoreWith(FALSE, FALSE, TRUE) = eq_score_traces_plus_one

\* C29: finalize writes the final-report field only: every other field of
\* the run keeps its value, and each field of the report is the run's value
\* of that field when the run ends.
C29_FinalizeFrame ==
    [][(pcMain = "finalize" /\ pcMain' = "END") =>
          /\ \A f \in Fields \ {"final_report"} : state'[f] = state[f]
          /\ state'.final_report =
                Some([incident_id |-> state'.incident_id,
                      layer |-> state'.layer,
                      root_nf |-> state'.root_nf,
                      failure_mode |-> state'.failure_mode,
                      confidence |-> state'.confidence,
                      evidence_chain |-> state'.evidence_chain,
                      infra_score |-> state'.infra_score,
                      evidence_quality_score |-> state'.evidence_quality_score,
                      degraded_mode |-> state'.degraded_mode,
                      attempt_count |-> state'.attempt_count])]_vars

C29_Witness ==
    /\ pcMain = "END"
    /\ state.final_report # None
    /\ state.final_report[1].attempt_count = 3
    /\ state.final_report[1].degraded_mode
    /\ state.final_report[1].layer = "application"
    /\ state.evidence_gaps # None

\* the alert of the run has no parseable timestamp
MalformedAlert == state.alert.startsAt \in {"malformed", "missing"}

\* C30: a run whose alert timestamp is unparseable or absent fails with an
\* error, and no probe, backend query or store operation is issued for it:
\* no collection step gets past its first statements.
C30_MalformedFailsFirst ==
    /\ [](MalformedAlert =>
            /\ fetch = IdleFetch /\ tr = IdleTr /\ store = << >>
            /\ ~hist.queryOk /\ ~hist.storeRaised
            /\ wrote = [infra |-> {}, data |-> {}]
            /\ pcInfra = "infra_agent" /\ pcData = "metrics_agent"
            /\ pcMain \in {"join", "failed"}
            /\ (pcMain = "failed" =>
                   error \in {Some("infra_agent"), Some("metrics_agent")}))
    /\ (MalformedAlert ~> pcMain = "failed")

C30_Witness ==
    /\ MalformedAlert
    /\ state.alert.startsAt = "malformed"
    /\ state.dag # None
    /\ pcMain = "failed"
    /\ error = Some("metrics_agent")
    /\ fetch = IdleFetch

\* C31: a store query that meets a transient error at every attempt is
\* attempted exactly max_retries times, sleeps 2^k after failed attempt k
\* (k = 0, 1, ...) except after the last one, and raises the error of the
\* last attempt.
C31_RetryWithBackoff ==
    (/\ api.op = "query"
     /\ \A i \in 1..api.retries : api.env[i] = "transient")
    => /\ api.call.status = "raised"
       /\ api.call.attempts = api.retries
       /\ api.call.sleeps = [k \in 1..(api.retries - 1) |-> 2 ^ (k - 1)]
       /\ api.call.error = api.retries

C31_Witness ==
    /\ api.op = "query" /\ api.retries = 3
    /\ \A i \in 1..3 : api.env[i] = "transient"
    /\ api.call.sleeps = << 1, 2 >>
    /\ api.call.status = "raised"

\* C32: attempt_count starts at 1, changes at the retry step only and by
\* exactly +1, and never exceeds max_attempts.
C32_AttemptCountDiscipline ==
    /\ [](/\ state.attempt_count = 1 + hist.incs
          /\ state.attempt_count >= 1
          /\ state.attempt_count <= state.max_attempts)
    /\ [][state'.attempt_count # state.attempt_count =>
            /\ pcMain = "increment_attempt"
            /\ state'.attempt_count = state.attempt_count + 1]_vars

C32_Witness ==
    /\ pcMain = "rca_agent"
    /\ state.attempt_count = MaxAttemptsBound
    /\ state.max_attempts = MaxAttemptsBound
    /\ hist.incs = MaxAttemptsBound - 1

\* C33: at the end of a run the attempt count of the final report is the
\* number of decision steps the run executed, and is at least 1.
C33_ReportCountsDecisions ==
    pcMain = "END" =>
        /\ state.final_report # None
        /\ state.final_report[1].attempt_count = hist.rcaRuns
        /\ state.final_report[1].attempt_count >= 1

C33_Witness ==
    /\ pcMain = "END"
    /\ state.final_report[1].attempt_count = 3
    /\ hist.rcaRuns = 3
    /\ ~state.needs_more_evidence

\* C34: a run is at its end exactly when finalize has executed, finalize
\* executes at most once, and no step of any kind follows it.
C34_FinalizeOnceAndLast ==
    /\ [](hist.finals <= 1 /\ (pcMain = "END" <=> hist.finals = 1))
    /\ [][pcMain = "END" => UNCHANGED vars]_vars

C34_Witness ==
    /\ pcMain = "END"
    /\ hist.finals = 1
    /\ hist.rcaRuns = 1 /\ state.max_attempts = 1
    /\ state.needs_more_evidence

\* C35: once the join has let the decision step in, no collector runs and
\* the infra, metrics, logs, trace and evidence-quality fields keep their
\* values: every attempt sees the evidence the first attempt saw.
C35_RetryKeepsEvidence ==
    [][pcMain # "join" =>
          /\ \A f \in InfraFields \cup DataFields : state'[f] = state[f]
          /\ pcInfra' = pcInfra /\ pcData' = pcData
          /\ fetch' = fetch /\ tr' = tr /\ store' = store
          /\ wrote' = wrote]_vars

C35_Witness ==
    /\ pcMain = "rca_agent"
    /\ hist.rcaRuns = 1 /\ hist.incs = 1
    /\ TruthyList(state.logs)
    /\ store # << >>

\* C36: every degraded confidence is at most 0.60 and below both gate
\* thresholds; a decision step whose reasoning call timed out leaves
\* needs_more_evidence set; a run whose reasoning calls all timed out comes to
\* finalize after exactly max_attempts decision steps.
C36_TimeoutsExhaustAttempts ==
    /\ \A c \in {degraded_conf_infra_generic, degraded_conf_infra_specific,
                 degraded_conf_app_unknown, degraded_conf_app_pattern_match} :
          c <= 60 /\ c < min_confidence_relaxed /\ c < min_confidence_default
    /\ (pcMain \in {"should_retry", "increment_attempt", "finalize", "END"}
        /\ hist.lastLlm = "timeout") => state.needs_more_evidence
    /\ (pcMain \in {"finalize", "END"} /\ ~hist.llmOther) =>
          hist.rcaRuns = state.max_attempts

C36_Witness ==
    /\ pcMain = "END"
    /\ ~hist.llmOther /\ hist.llmTimeout
    /\ hist.rcaRuns = MaxAttemptsBound
    /\ state.max_attempts = MaxAttemptsBound
    /\ state.needs_more_evidence

\* C37: a decision step sets the degraded flag when its reasoning call timed
\* out and clears it when the call returned; a call that failed otherwise
\* leaves every field as it was and ends the run in the decision step: no
\* routing, no retry and no finalize follows.
C37_OtherFailurePropagates ==
    /\ [][hist'.rcaRuns = hist.rcaRuns + 1 =>
            /\ hist'.lastLlm = "timeout" => state'.degraded_mode
            /\ hist'.lastLlm = "ok" => ~state'.degraded_mode
            /\ hist'.lastLlm = "error" =>
                  /\ state' = state
                  /\ pcMain' = "failed" /\ error' = Some("rca_agent")]_vars
    /\ [](error = Some("rca_agent") =>
            /\ pcMain = "failed" /\ hist.lastLlm = "error"
            /\ hist.finals = 0
            /\ hist.routes = hist.rcaRuns - 1
            /\ hist.incs = hist.rcaRuns - 1)
    /\ [][error = Some("rca_agent") => UNCHANGED vars]_vars

C37_Witness ==
    /\ error = Some("rca_agent")
    /\ hist.rcaRuns = 1
    /\ ~state.degraded_mode /\ state.degraded_reason = None
    /\ state.max_attempts = 2
    /\ state.final_report = None

C39_NoDeviationFromPipeline ==
    /\ \A k \in 1..Len(store) : \A i \in 1..Len(store[k].events) :
          store[k].events[i].order = None /\ store[k].events[i].action = None
    /\ \A k \in 1..Len(store) :
          detect_deviation(store, store[k].incident_id, store[k].imsi,
                           state.procedure_name) = None
    /\ state.trace_deviations \in {None, Some(<< >>)}

C39_Witness ==
    /\ pcData = "evidence_quality"
    /\ store # << >> /\ store[1].events # << >>
    /\ state.procedure_name = Some("Registration_General")
    /\ state.trace_deviations = Some(<< >>)

\* C40: a run whose state has no procedure definition (dag is None, as
\* get_initial_state leaves it) fails in metrics_agent's precondition check:
\* no metrics or log query is issued, no decision step runs and the run
\* never gets to finalize.
C40_NoDagFailsInMetrics ==
    /\ [](state.dag = None =>
            /\ fetch = IdleFetch /\ ~hist.queryOk
            /\ pcData = "metrics_agent"
            /\ state.metrics = None /\ state.logs = None
            /\ hist.rcaRuns = 0 /\ hist.finals = 0
            /\ pcMain \in {"join", "failed"}
            /\ error # None => pcMain = "failed"
            /\ (error # None /\ state.alert.startsAt = "valid") =>
                  error = Some("metrics_agent"))
    /\ (state.dag = None ~> pcMain = "failed")

C40_Witness ==
    /\ state.dag = None
    /\ state.alert.startsAt = "valid"
    /\ pcInfra = "done" /\ state.infra_checked
    /\ pcMain = "failed"
    /\ error = Some("metrics_agent")
====
